---- MODULE Spec2Model ----
(***************************************************************************)
(* Model of the MLK archive scripts:                                       *)
(*   mlk_archive_to_s3/download_to_s3.py    (MLKArchiveDownloader, main)   *)
(*   mlk_archive_to_s3/scrape_mlk_records.py (scrape_mlk_records)          *)
(*   s3_hosting/generate_index.py           (module body)                  *)
(* Four specifications share the module: Spec (the downloader), SpecCli    *)
(* (the downloader started with --s3-prefix), SpecScrape (the scraper) and *)
(* SpecIndex (the index generator).                                        *)
(***************************************************************************)
EXTENDS Integers, Sequences, FiniteSets, TLC

(***************************************************************************)
(* Bounds of the model.                                                    *)
(***************************************************************************)
MaxUrls == 2
MaxWorkers == 2
MaxSize == 1
MaxTables == 2
MaxPages == 2
MaxObjs == 2

(***************************************************************************)
(* Downloader: data.                                                       *)
(***************************************************************************)
\* A URL is the pair of its path (a sequence of segments) and its query.
Urls ==
  { [path |-> <<"files", "r1.pdf">>, query |-> ""],
    [path |-> <<"audio", "r1.pdf">>, query |-> ""] }

\* A line of the URL file: a URL, or a blank line.
BlankLine == [path |-> <<>>, query |-> ""]

UrlFiles ==
  UNION { [1..n -> Urls \cup {BlankLine}] : n \in 0..MaxUrls }

\* urls = [line.strip() for line in f if line.strip()]
NonBlank(line) == line # BlankLine

ReadUrls(lines) == SelectSeq(lines, NonBlank)

\* urlparse(url).path
UrlPath(url) == url.path

\* os.path.basename(path): the last segment, "" for an empty path
Basename(path) == IF Len(path) = 0 THEN "" ELSE path[Len(path)]

DefaultPrefix == "mlk-archive/"

Prefixes == {DefaultPrefix, "docs/"}

\* s3_key = f"{s3_key_prefix}{filename}"
S3Key(prefix, url) == <<prefix, Basename(UrlPath(url))>>

Keys == { S3Key(p, u) : p \in Prefixes, u \in Urls }

NoHeader == -1

\* What the remote server holds for a URL: the number of body bytes a GET
\* delivers and the Content-Length header its HEAD response carries, which is
\* absent, short of the body by one, or the size of the body.
RemoteFiles ==
  { [cl |-> c, body |-> MaxSize] : c \in {NoHeader, MaxSize - 1, MaxSize} }

\* int(head_response.headers.get('content-length', 0))
RemoteSize_noHeaderRead(file) == 0

RemoteSize(file) == IF file.cl = NoHeader THEN 0 ELSE file.cl

NoObject == [size |-> -1, source_url |-> BlankLine]

NoResult == [success |-> FALSE, filename |-> "", error |-> "pending"]

\* The locals of one call of download_and_upload_file: the outcome of the HEAD
\* request and remote_size, the outcome of head_object, buffer_size, error_msg,
\* and the value loaded for a pending += store.
NoFrame ==
  [head |-> "none", remote_size |-> 0, s3 |-> "none", buffer_size |-> 0,
   error_msg |-> "", tmp |-> 0]

Tasks == 1..MaxUrls

VARIABLES
  args_s3_prefix,    \* args.s3_prefix of main()
  max_workers,       \* self.max_workers
  remote,            \* the archive server: URL -> remote file
  bucket,            \* the S3 bucket: key -> object
  urls,              \* urls of download_from_url_file
  total_urls,        \* total_urls of download_from_url_file
  mpc,               \* position of download_from_url_file
  tpc,               \* position of each submitted download_and_upload_file
  frame,             \* locals of each running download_and_upload_file
  gets,              \* GET requests issued by each call
  puts,              \* objects written by each call
  result,            \* return value of each call (the future's result)
  downloaded_count,  \* self.downloaded_count
  failed_count,      \* self.failed_count
  total_size         \* self.total_size

dlvars ==
  <<args_s3_prefix, max_workers, remote, bucket, urls, total_urls, mpc, tpc,
    frame, gets, puts, result, downloaded_count, failed_count, total_size>>

VARIABLES
  page,              \* the parsed page (soup) of scrape_mlk_records
  spc,               \* position of scrape_mlk_records
  table,             \* table of scrape_mlk_records: index in tables, 0 = None
  source,            \* the branch that produced the return value
  records            \* return value of scrape_mlk_records

scvars == <<page, spc, table, source, records>>

VARIABLES
  listing,           \* the pages paginator.paginate(...) yields
  ipc,               \* position of generate_index.py
  page_no,           \* the page the outer loop is at
  obj_no,            \* the object the inner loop is at
  html,              \* html
  written            \* the lines written to OUTPUT_FILE

ixvars == <<listing, ipc, page_no, obj_no, html, written>>

vars == <<dlvars, scvars, ixvars>>

counters == <<downloaded_count, failed_count, total_size>>

(***************************************************************************)
(* Downloader: main() and MLKArchiveDownloader.__init__                    *)
(***************************************************************************)
DlStart(prefixes, workers, remotes) ==
  /\ args_s3_prefix \in prefixes
  /\ max_workers \in workers
  /\ remote \in remotes
  /\ bucket = [k \in Keys |-> NoObject]
  /\ urls = <<>>
  /\ total_urls = 0
  /\ mpc = "read"
  /\ tpc = [i \in Tasks |-> "none"]
  /\ frame = [i \in Tasks |-> NoFrame]
  /\ gets = [i \in Tasks |-> 0]
  /\ puts = [i \in Tasks |-> 0]
  /\ result = [i \in Tasks |-> NoResult]
  /\ downloaded_count = 0
  /\ failed_count = 0
  /\ total_size = 0

\* run_mlk_download(), or main() without --s3-prefix
DlInit == DlStart({DefaultPrefix}, 1..MaxWorkers, [Urls -> RemoteFiles])

\* main() with --s3-prefix given on the command line
CliInit == DlStart(Prefixes, 1..MaxWorkers, [Urls -> RemoteFiles])

\* the downloader is not run
DlIdle ==
  DlStart({DefaultPrefix}, {1}, {[u \in Urls |-> [cl |-> MaxSize, body |-> MaxSize]]})

(***************************************************************************)
(* download_from_url_file                                                  *)
(***************************************************************************)
\* with open(url_file_path) ...: urls, total_urls
ReadUrlFile ==
  /\ mpc = "read"
  /\ \E lines \in UrlFiles :
       /\ urls' = ReadUrls(lines)
       /\ total_urls' = Len(ReadUrls(lines))
  /\ mpc' = "bucket"
  /\ UNCHANGED <<scvars, ixvars, args_s3_prefix, max_workers, remote, bucket, tpc, frame, gets,
                 puts, result, counters>>

\* head_bucket; on ClientError create_bucket, whose exception is not caught.
\* On success every URL is submitted to the executor.
EnsureBucket ==
  /\ mpc = "bucket"
  /\ \E outcome \in {"exists", "created", "create_failed"} :
       IF outcome = "create_failed"
       THEN /\ mpc' = "raised"
            /\ UNCHANGED tpc
       ELSE /\ mpc' = "pool"
            /\ tpc' = [i \in Tasks |-> IF i <= Len(urls) THEN "queued" ELSE "none"]
  /\ UNCHANGED <<scvars, ixvars, args_s3_prefix, max_workers, remote, bucket, urls, total_urls,
                 frame, gets, puts, result, counters>>

InProgress == { i \in Tasks : tpc[i] \notin {"none", "queued", "done"} }

\* ThreadPoolExecutor(max_workers=self.max_workers): a worker thread is free
WorkerAvailable_noLimit == TRUE

WorkerAvailable == Cardinality(InProgress) < max_workers

\* the prefix download_from_url_file passes: executor.submit(
\* self.download_and_upload_file, url) leaves s3_key_prefix at its default
SubmittedPrefix == DefaultPrefix

KeyOf(i) == S3Key(SubmittedPrefix, urls[i])

\* The with-block of the executor ends when every task is done; the summary
\* is logged next.
Summary ==
  /\ mpc = "pool"
  /\ \A i \in Tasks : tpc[i] \in {"none", "done"}
  /\ mpc' = "summary"
  /\ UNCHANGED <<scvars, ixvars, args_s3_prefix, max_workers, remote, bucket, urls, total_urls,
                 tpc, frame, gets, puts, result, counters>>

(***************************************************************************)
(* download_and_upload_file                                                *)
(***************************************************************************)
Filename(i) == Basename(UrlPath(urls[i]))

\* an except handler is entered with error_msg; self.failed_count += 1 follows
Fail(i, f, msg) ==
  /\ frame' = [frame EXCEPT ![i] = [f EXCEPT !.error_msg = msg]]
  /\ tpc' = [tpc EXCEPT ![i] = "fail_load"]

\* A worker takes the next task of the executor's FIFO work queue and runs
\* it up to self.session.head(url); raise_for_status(); remote_size
HeadRequest(i) ==
  /\ mpc = "pool"
  /\ tpc[i] = "queued"
  /\ \A j \in Tasks : j < i => tpc[j] # "queued"
  /\ WorkerAvailable
  /\ \E ok \in BOOLEAN :
       IF ok
       THEN /\ frame' = [frame EXCEPT ![i] =
                           [NoFrame EXCEPT !.head = "ok",
                              !.remote_size = RemoteSize(remote[urls[i]])]]
            /\ tpc' = [tpc EXCEPT ![i] = "s3head"]
       ELSE Fail(i, [NoFrame EXCEPT !.head = "failed"], "Failed to fetch headers")
  /\ UNCHANGED <<scvars, ixvars, args_s3_prefix, max_workers, remote, bucket, urls, total_urls,
                 mpc, gets, puts, result, counters>>

\* What head_object can answer for a key: the object, a ClientError with code
\* '404' when there is none, or any other error.
HeadObjectOutcomes(key) ==
  IF bucket[key] = NoObject THEN {"404", "error"} ELSE {"found", "error"}

\* s3_size == remote_size
SizeMatches_bufferSize(i, key) == bucket[key].size = frame[i].buffer_size

SizeMatches(i, key) == bucket[key].size = frame[i].remote_size

\* if e.response['Error']['Code'] != '404': raise
Reraise_never(outcome) == FALSE

Reraise(outcome) == outcome # "404"

\* self.s3_client.head_object(...) and the size comparison; on equal sizes
\* return True, filename, "Already exists and matches size"
HeadObject(i) ==
  /\ tpc[i] = "s3head"
  /\ \E outcome \in HeadObjectOutcomes(KeyOf(i)) :
       IF outcome = "found"
       THEN IF SizeMatches(i, KeyOf(i))
            THEN /\ result' = [result EXCEPT ![i] =
                      [success |-> TRUE, filename |-> Filename(i),
                       error |-> "Already exists and matches size"]]
                 /\ frame' = [frame EXCEPT ![i] = NoFrame]
                 /\ tpc' = [tpc EXCEPT ![i] = "done"]
            ELSE /\ frame' = [frame EXCEPT ![i].s3 = "differs"]
                 /\ tpc' = [tpc EXCEPT ![i] = "get"]
                 /\ UNCHANGED result
       ELSE IF Reraise(outcome)
            THEN /\ Fail(i, [frame[i] EXCEPT !.s3 = "error"], "Upload error")
                 /\ UNCHANGED result
            ELSE /\ frame' = [frame EXCEPT ![i].s3 = outcome]
                 /\ tpc' = [tpc EXCEPT ![i] = "get"]
                 /\ UNCHANGED result
  /\ UNCHANGED <<scvars, ixvars, args_s3_prefix, max_workers, remote, bucket, urls, total_urls,
                 mpc, gets, puts, counters>>

\* self.session.get(url, stream=True); raise_for_status(); iter_content;
\* buffer_size
Get(i) ==
  /\ tpc[i] = "get"
  /\ gets' = [gets EXCEPT ![i] = gets[i] + 1]
  /\ \E ok \in BOOLEAN :
       IF ok
       THEN /\ frame' = [frame EXCEPT ![i].buffer_size = remote[urls[i]].body]
            /\ tpc' = [tpc EXCEPT ![i] = "upload"]
       ELSE Fail(i, frame[i], "Download error")
  /\ UNCHANGED <<scvars, ixvars, args_s3_prefix, max_workers, remote, bucket, urls, total_urls,
                 mpc, puts, result, counters>>

\* self.s3_client.upload_fileobj(buffer, bucket, s3_key, ExtraArgs=...)
Upload(i) ==
  /\ tpc[i] = "upload"
  /\ \E ok \in BOOLEAN :
       IF ok
       THEN /\ bucket' = [bucket EXCEPT ![KeyOf(i)] =
                            [size |-> frame[i].buffer_size, source_url |-> urls[i]]]
            /\ puts' = [puts EXCEPT ![i] = puts[i] + 1]
            /\ tpc' = [tpc EXCEPT ![i] = "count_load"]
            /\ UNCHANGED frame
       ELSE /\ Fail(i, frame[i], "Upload error")
            /\ UNCHANGED <<bucket, puts>>
  /\ UNCHANGED <<scvars, ixvars, args_s3_prefix, max_workers, remote, urls, total_urls,
                 mpc, gets, result, counters>>

\* self.downloaded_count += 1: the load of the attribute ...
CountLoad(i) ==
  /\ tpc[i] = "count_load"
  /\ frame' = [frame EXCEPT ![i].tmp = downloaded_count]
  /\ tpc' = [tpc EXCEPT ![i] = "count_store"]
  /\ UNCHANGED <<scvars, ixvars, args_s3_prefix, max_workers, remote, bucket, urls, total_urls,
                 mpc, gets, puts, result, counters>>

\* ... and the store of the sum
CountStore(i) ==
  /\ tpc[i] = "count_store"
  /\ downloaded_count' = frame[i].tmp + 1
  /\ frame' = [frame EXCEPT ![i].tmp = 0]
  /\ tpc' = [tpc EXCEPT ![i] = "size_load"]
  /\ UNCHANGED <<scvars, ixvars, args_s3_prefix, max_workers, remote, bucket, urls, total_urls,
                 mpc, gets, puts, result, failed_count, total_size>>

\* self.total_size += buffer_size: the load ...
SizeLoad(i) ==
  /\ tpc[i] = "size_load"
  /\ frame' = [frame EXCEPT ![i].tmp = total_size]
  /\ tpc' = [tpc EXCEPT ![i] = "size_store"]
  /\ UNCHANGED <<scvars, ixvars, args_s3_prefix, max_workers, remote, bucket, urls, total_urls,
                 mpc, gets, puts, result, counters>>

\* ... the store, and return True, filename, None
SizeStore(i) ==
  /\ tpc[i] = "size_store"
  /\ total_size' = frame[i].tmp + frame[i].buffer_size
  /\ result' = [result EXCEPT ![i] =
                  [success |-> TRUE, filename |-> Filename(i), error |-> "None"]]
  /\ frame' = [frame EXCEPT ![i] = NoFrame]
  /\ tpc' = [tpc EXCEPT ![i] = "done"]
  /\ UNCHANGED <<scvars, ixvars, args_s3_prefix, max_workers, remote, bucket, urls, total_urls,
                 mpc, gets, puts, downloaded_count, failed_count>>

\* self.failed_count += 1 of the three handlers: the load ...
FailLoad(i) ==
  /\ tpc[i] = "fail_load"
  /\ frame' = [frame EXCEPT ![i].tmp = failed_count]
  /\ tpc' = [tpc EXCEPT ![i] = "fail_store"]
  /\ UNCHANGED <<scvars, ixvars, args_s3_prefix, max_workers, remote, bucket, urls, total_urls,
                 mpc, gets, puts, result, counters>>

\* ... the store, and return False, filename, error_msg
FailStore(i) ==
  /\ tpc[i] = "fail_store"
  /\ failed_count' = frame[i].tmp + 1
  /\ result' = [result EXCEPT ![i] =
                  [success |-> FALSE, filename |-> Filename(i),
                   error |-> frame[i].error_msg]]
  /\ frame' = [frame EXCEPT ![i] = NoFrame]
  /\ tpc' = [tpc EXCEPT ![i] = "done"]
  /\ UNCHANGED <<scvars, ixvars, args_s3_prefix, max_workers, remote, bucket, urls, total_urls,
                 mpc, gets, puts, downloaded_count, total_size>>

(***************************************************************************)
(* scrape_mlk_records: data.                                               *)
(* A text is a sequence of tokens, " " being white space; an href is the   *)
(* sequence <<directory, stem, extension>>; a cell is a th or td with its  *)
(* text and the links in it; a row is a sequence of cells and a table a    *)
(* sequence of rows.                                                       *)
(***************************************************************************)
PdfThreshold == 10

base_url == "https://www.archives.gov"

\* str.strip()
RECURSIVE LStrip(_)
LStrip(t) == IF t # <<>> /\ t[1] = " " THEN LStrip(Tail(t)) ELSE t

RECURSIVE RStrip(_)
RStrip(t) ==
  IF t # <<>> /\ t[Len(t)] = " " THEN RStrip(SubSeq(t, 1, Len(t) - 1)) ELSE t

Strip(t) == RStrip(LStrip(t))

\* str.lower()
LowerToken(tok) ==
  CASE tok = ".PDF" -> ".pdf"
    [] tok = ".MP3" -> ".mp3"
    [] OTHER -> tok

Lower(href) == [k \in DOMAIN href |-> LowerToken(href[k])]

\* ext in href.lower()
HrefHas(href, ext) == \E k \in DOMAIN href : Lower(href)[k] = ext

\* urljoin(base_url, href) of a site-relative href
Urljoin(base, href) == <<base>> \o href

\* os.path.basename(urlparse(href).path)
HrefBasename(href) == SubSeq(href, 2, Len(href))

LinkPdf == [href |-> <<"/files/", "r1", ".pdf">>, text |-> <<"r1">>]

LinkUpper == [href |-> <<"/files/", "r2", ".PDF">>, text |-> <<" ", "r2", " ">>]

LinkMp3 == [href |-> <<"/audio/", "a1", ".mp3">>, text |-> <<" ">>]

LinkHtml == [href |-> <<"/research/", "about", ".html">>, text |-> <<"About">>]

Cell(tag, text, links) == [tag |-> tag, text |-> text, links |-> links]

HeaderRows ==
  { << Cell("th", <<" ", "Record Number", " ">>, <<>>),
       Cell("th", <<"NARA Release Date">>, <<>>) >>,
    << Cell("th", <<"Record Number">>, <<>>), Cell("th", <<"Title">>, <<>>) >>,
    << Cell("td", <<"Record Number">>, <<>>),
       Cell("td", <<"NARA Release Date">>, <<>>) >> }

DataRowKinds ==
  { << Cell("td", <<"r1">>, <<LinkPdf>>), Cell("td", <<"2025-07-21", " ">>, <<>>) >>,
    << Cell("td", <<"r2">>, <<LinkUpper>>), Cell("td", <<"2025-07-21">>, <<>>) >>,
    << Cell("td", <<"r1">>, <<LinkPdf>>) >> }

RowCounts == {0, PdfThreshold, PdfThreshold + 1}

MkTable(header, row, n) == <<header>> \o [k \in 1..n |-> row]

ScTables ==
  { MkTable(h, r, n) : h \in HeaderRows, r \in DataRowKinds, n \in RowCounts }

LooseLinks == { <<>>, <<LinkPdf>>, <<LinkHtml, LinkMp3>> }

ScPages ==
  { [tables |-> ts, loose |-> l] :
      ts \in UNION { [1..n -> ScTables] : n \in 0..MaxTables }, l \in LooseLinks }

NoPage == [tables |-> <<>>, loose |-> <<>>]

(***************************************************************************)
(* scrape_mlk_records: the function.                                       *)
(***************************************************************************)
\* t.find_all(['td', 'th']) over the rows of a table
RECURSIVE TableCells(_)
TableCells(rows) ==
  IF rows = <<>> THEN <<>> ELSE Head(rows) \o TableCells(Tail(rows))

\* t.find_all('a', href=True)
RECURSIVE CellLinks(_)
CellLinks(cells) ==
  IF cells = <<>> THEN <<>> ELSE Head(cells).links \o CellLinks(Tail(cells))

TableLinks(t) == CellLinks(TableCells(t))

\* soup.find_all('a', href=True)
RECURSIVE TablesLinks(_)
TablesLinks(ts) ==
  IF ts = <<>> THEN <<>> ELSE TableLinks(Head(ts)) \o TablesLinks(Tail(ts))

AllLinks(p) == TablesLinks(p.tables) \o p.loose

IsTh(cell) == cell.tag = "th"

\* headers = t.find_all('th'); len(headers) >= 2 and both texts in header_text
HasRecordHeaders(t) ==
  LET headers == SelectSeq(TableCells(t), IsTh)
      header_text == [k \in DOMAIN headers |-> Strip(headers[k].text)]
  IN /\ Len(headers) >= 2
     /\ \E k \in DOMAIN header_text : header_text[k] = <<"Record Number">>
     /\ \E k \in DOMAIN header_text : header_text[k] = <<"NARA Release Date">>

\* for t in tables: ... table = t; break
RECURSIVE FindHeaderTable(_, _)
FindHeaderTable(ts, k) ==
  IF k > Len(ts) THEN 0
  ELSE IF HasRecordHeaders(ts[k]) THEN k
  ELSE FindHeaderTable(ts, k + 1)

IsPdfLink(link) == HrefHas(link.href, ".pdf")

\* pdf_links = [...]; len(pdf_links) > 10
ManyPdfLinks_atLeast(t) == Len(SelectSeq(TableLinks(t), IsPdfLink)) >= PdfThreshold

ManyPdfLinks(t) == Len(SelectSeq(TableLinks(t), IsPdfLink)) > PdfThreshold

RECURSIVE FindPdfTable(_, _)
FindPdfTable(ts, k) ==
  IF k > Len(ts) THEN 0
  ELSE IF ManyPdfLinks(ts[k]) THEN k
  ELSE FindPdfTable(ts, k + 1)

\* the fallback loop over all_links
RECURSIVE PageRecords(_)
PageRecords(links) ==
  IF links = <<>> THEN <<>>
  ELSE LET link == Head(links)
       IN (IF HrefHas(link.href, ".pdf") \/ HrefHas(link.href, ".mp3")
           THEN << [filename |-> IF Strip(link.text) # <<>> THEN Strip(link.text)
                                  ELSE HrefBasename(link.href),
                    url |-> Urljoin(base_url, link.href),
                    release_date |-> <<"Unknown">>] >>
           ELSE <<>>)
          \o PageRecords(Tail(links))

\* the loop over rows[1:]
RECURSIVE RowRecords(_)
RowRecords(rows) ==
  IF rows = <<>> THEN <<>>
  ELSE LET cells == Head(rows)
       IN (IF Len(cells) >= 2 /\ cells[1].links # <<>>
           THEN << [filename |-> Strip(cells[1].links[1].text),
                    url |-> Urljoin(base_url, cells[1].links[1].href),
                    release_date |-> Strip(cells[2].text)] >>
           ELSE <<>>)
          \o RowRecords(Tail(rows))

TableRecords(t) == IF t = <<>> THEN <<>> ELSE RowRecords(Tail(t))

ScIdle ==
  /\ page = NoPage
  /\ spc = "idle"
  /\ table = 0
  /\ source = "none"
  /\ records = <<>>

\* the page the archive serves when scrape_mlk_records is called
ScInit ==
  /\ page \in ScPages
  /\ spc = "fetch"
  /\ table = 0
  /\ source = "none"
  /\ records = <<>>

\* session.get(url); raise_for_status(); a RequestException returns []
ScFetch ==
  /\ spc = "fetch"
  /\ \E ok \in BOOLEAN :
       spc' = IF ok THEN "find_header" ELSE "done"
  /\ UNCHANGED <<dlvars, ixvars, page, table, source, records>>

\* the first loop over tables
ScFindHeaderTable ==
  /\ spc = "find_header"
  /\ table' = FindHeaderTable(page.tables, 1)
  /\ spc' = IF table' # 0 THEN "extract" ELSE "find_pdf"
  /\ source' = IF table' # 0 THEN "header_table" ELSE source
  /\ UNCHANGED <<dlvars, ixvars, page, records>>

\* if not table: the second loop over tables
ScFindPdfTable ==
  /\ spc = "find_pdf"
  /\ table' = FindPdfTable(page.tables, 1)
  /\ spc' = IF table' # 0 THEN "extract" ELSE "fallback"
  /\ source' = IF table' # 0 THEN "pdf_table" ELSE source
  /\ UNCHANGED <<dlvars, ixvars, page, records>>

\* if not table: return the document links of the whole page
ScFallback ==
  /\ spc = "fallback"
  /\ records' = PageRecords(AllLinks(page))
  /\ source' = "page_links"
  /\ spc' = "done"
  /\ UNCHANGED <<dlvars, ixvars, page, table>>

\* extract data from the table; return records
ScExtract ==
  /\ spc = "extract"
  /\ records' = TableRecords(page.tables[table])
  /\ spc' = "done"
  /\ UNCHANGED <<dlvars, ixvars, page, table, source>>

ScNext ==
  \/ ScFetch
  \/ ScFindHeaderTable
  \/ ScFindPdfTable
  \/ ScFallback
  \/ ScExtract

(***************************************************************************)
(* generate_index.py.  A key is the sequence of its "/"-separated parts,   *)
(* so a key that ends with "/" has the last part "".  An element of html   *)
(* is a record of its markup, the target of its link and its text.         *)
(***************************************************************************)
BUCKET == "example-transformations-mlk-archive"

PROCESSED_JSONL_URL == <<"https://", BUCKET, ".s3.us-east-1.amazonaws.com/",
                         <<"transformed-data", "mlk-archive-public.jsonl">> >>

\* the keys under PREFIX, in the order list_objects_v2 returns them
IxKeys ==
  << <<"mlk-archive", "">>,
     <<"mlk-archive", "r1.pdf">>,
     <<"mlk-archive", "sub", "">>,
     <<"mlk-archive", "sub", "r2.pdf">> >>

\* a listing is split in pages of at most MaxObjs objects; a page without
\* "Contents" is the empty page
IxPageShapes == UNION { [1..m -> DOMAIN IxKeys] : m \in 0..MaxObjs }

RECURSIVE Flatten(_)
Flatten(pages) ==
  IF pages = <<>> THEN <<>> ELSE Head(pages) \o Flatten(Tail(pages))

Increasing(ns) == \A a, b \in DOMAIN ns : a < b => ns[a] < ns[b]

Listings ==
  { [n \in DOMAIN shape |->
       [m \in DOMAIN shape[n] |-> [Key |-> IxKeys[shape[n][m]]]]] :
      shape \in { sh \in UNION { [1..n -> IxPageShapes] : n \in 1..MaxPages } :
                    Increasing(Flatten(sh)) } }

Item(markup, href, text) == [markup |-> markup, href |-> href, text |-> text]

\* key.endswith("/")
EndsWithSlash_never(key) == FALSE

EndsWithSlash(key) == key[Len(key)] = ""

\* key.split("/")[-1]
LastPart(key) == key[Len(key)]

\* f"https://{BUCKET}.s3.amazonaws.com/{key}"
ObjectUrl(key) == <<"https://", BUCKET, ".s3.amazonaws.com/", key>>

IxIdle ==
  /\ listing = <<>>
  /\ ipc = "idle"
  /\ page_no = 0
  /\ obj_no = 0
  /\ html = <<>>
  /\ written = <<>>

\* the listing of the bucket when the script runs; html = ['<html><body>']
IxInit ==
  /\ listing \in Listings
  /\ ipc = "start"
  /\ page_no = 0
  /\ obj_no = 0
  /\ html = << Item("<html><body>", <<>>, "") >>
  /\ written = <<>>

\* the three html.append before the loop; the paginator yields its first page
IxHeader ==
  /\ ipc = "start"
  /\ html' = html \o
       << Item("<h1>", <<>>, "Processed Dataset"),
          Item("<p><a>", PROCESSED_JSONL_URL, "Download mlk-archive-public.jsonl"),
          Item("<h1><ul>", <<>>, "Unprocessed National Archive Files") >>
  /\ page_no' = 1
  /\ obj_no' = 1
  /\ ipc' = "list"
  /\ UNCHANGED <<dlvars, scvars, listing, written>>

\* one pass of: for obj in page.get("Contents", [])
IxObject ==
  /\ ipc = "list"
  /\ page_no <= Len(listing)
  /\ obj_no <= Len(listing[page_no])
  /\ LET key == listing[page_no][obj_no].Key
     IN html' = IF EndsWithSlash(key)
                THEN html
                ELSE Append(html, Item("<li><a>", ObjectUrl(key), LastPart(key)))
  /\ obj_no' = obj_no + 1
  /\ UNCHANGED <<dlvars, scvars, listing, ipc, page_no, written>>

\* the inner loop is over: for page in paginator.paginate(...) goes on
IxNextPage ==
  /\ ipc = "list"
  /\ page_no <= Len(listing)
  /\ obj_no > Len(listing[page_no])
  /\ page_no' = page_no + 1
  /\ obj_no' = 1
  /\ UNCHANGED <<dlvars, scvars, listing, ipc, html, written>>

\* html.append("</ul></body></html>"); f.write("\n".join(html))
IxWrite ==
  /\ ipc = "list"
  /\ page_no > Len(listing)
  /\ html' = Append(html, Item("</ul></body></html>", <<>>, ""))
  /\ written' = html'
  /\ ipc' = "done"
  /\ UNCHANGED <<dlvars, scvars, listing, page_no, obj_no>>

IxNext ==
  \/ IxHeader
  \/ IxObject
  \/ IxNextPage
  \/ IxWrite

Init == DlInit /\ ScIdle /\ IxIdle

Next ==
  \/ ReadUrlFile
  \/ EnsureBucket
  \/ Summary
  \/ \E i \in Tasks : HeadRequest(i)
  \/ \E i \in Tasks : HeadObject(i)
  \/ \E i \in Tasks : Get(i)
  \/ \E i \in Tasks : Upload(i)
  \/ \E i \in Tasks : CountLoad(i)
  \/ \E i \in Tasks : CountStore(i)
  \/ \E i \in Tasks : SizeLoad(i)
  \/ \E i \in Tasks : SizeStore(i)
  \/ \E i \in Tasks : FailLoad(i)
  \/ \E i \in Tasks : FailStore(i)

Spec == Init /\ [][Next]_vars

InitCli == CliInit /\ ScIdle /\ IxIdle

SpecCli == InitCli /\ [][Next]_vars

InitScrape == DlIdle /\ ScInit /\ IxIdle

SpecScrape == InitScrape /\ [][ScNext]_vars

InitIndex == DlIdle /\ ScIdle /\ IxInit

SpecIndex == InitIndex /\ [][IxNext]_vars

(***************************************************************************)
(* Downloader: properties.                                                 *)
(***************************************************************************)
Submitted == 1..Len(urls)

Skipped(i) == result[i].error = "Already exists and matches size"

Uploaded(i) == result[i].success /\ result[i].error = "None"

Failed(i) == ~result[i].success /\ result[i] # NoResult

\* head_object answers for task i's key with an object of the size the HEAD
\* response reported
SameSizeStored(i) ==
  /\ tpc[i] = "s3head"
  /\ frame[i].head = "ok"
  /\ bucket[KeyOf(i)] # NoObject
  /\ remote[urls[i]].cl # NoHeader
  /\ bucket[KeyOf(i)].size = remote[urls[i]].cl

\* C1: when the HEAD request succeeded and head_object returns an object whose
\* ContentLength equals the Content-Length of the HEAD response, the call
\* returns success at once: it has issued no GET, written no object, and the
\* step leaves the bucket and the three counters unchanged.
C1_SkipChangesNothing ==
  [][\A i \in Submitted :
       (SameSizeStored(i) /\ tpc'[i] \notin {"s3head", "fail_load"})
         => /\ tpc'[i] = "done"
            /\ result'[i].success
            /\ Skipped(i)'
            /\ gets'[i] = 0
            /\ puts'[i] = 0
            /\ UNCHANGED <<bucket, counters>>]_vars

C1_Witness ==
  \E i \in Submitted :
    /\ Skipped(i)
    /\ remote[urls[i]].cl = bucket[KeyOf(i)].size
    /\ gets[i] = 0

\* task i is about to look up an object that an earlier call stored from the
\* same URL
StoredFromSameUrl(i) ==
  /\ tpc[i] = "s3head"
  /\ bucket[KeyOf(i)] # NoObject
  /\ bucket[KeyOf(i)].source_url = urls[i]

RECURSIVE UploadedBytes(_)
UploadedBytes(n) ==
  IF n = 0 THEN 0
  ELSE UploadedBytes(n - 1) + (IF Uploaded(n) THEN remote[urls[n]].body ELSE 0)

\* C3: when download_from_url_file reaches its summary, downloaded_count is
\* the number of uploaded URLs, failed_count the number of failed URLs and
\* total_size the sum of the uploaded bodies' lengths, under every
\* interleaving of the workers.
C3_CountersExact ==
  mpc = "summary" =>
    /\ downloaded_count = Cardinality({ i \in Submitted : Uploaded(i) })
    /\ failed_count = Cardinality({ i \in Submitted : Failed(i) })
    /\ total_size = UploadedBytes(Len(urls))

\* C4: at most max_workers calls of download_and_upload_file are in progress
\* at any time, however many URLs were submitted.
C4_AtMostMaxWorkersRunning == Cardinality(InProgress) <= max_workers

C4_Witness ==
  /\ Cardinality(InProgress) = max_workers
  /\ \E i \in Submitted : tpc[i] = "queued"

\* C5: every object in the bucket has the key made of the --s3-prefix given on
\* the command line and the basename of the path of a URL of the list.
C5_CommandLinePrefixUsed ==
  \A k \in Keys :
    bucket[k] # NoObject => \E i \in Submitted : k = S3Key(args_s3_prefix, urls[i])

\* C8: a call issues a GET or writes an object only after its HEAD request
\* succeeded and head_object either reported the key absent with code '404' or
\* returned an object of a different size; a call that failed at the HEAD
\* request or at head_object has issued no GET and written nothing.
C8_WriteOnlyAfterAbsentOrDifferent ==
  [][\A i \in Submitted :
       /\ (gets'[i] # gets[i] \/ puts'[i] # puts[i])
            => (frame[i].head = "ok" /\ frame[i].s3 \in {"404", "differs"})
       /\ (tpc'[i] = "fail_load" /\ tpc[i] \in {"queued", "s3head"})
            => (gets'[i] = 0 /\ puts'[i] = 0 /\ bucket' = bucket)]_vars

C8_Witness ==
  \E i, j \in Submitted :
    /\ Uploaded(i)
    /\ Failed(j)
    /\ result[j].error = "Upload error"
    /\ gets[j] = 0

\* C9: a call that fails returns (False, filename, error message), its
\* failed_count += 1 raises failed_count by exactly one, it leaves
\* downloaded_count and total_size alone and it has written no object.
C9_FailureCountedOnce ==
  [][\A i \in Submitted :
       (tpc[i] = "fail_store" /\ tpc'[i] = "done")
         => /\ ~result'[i].success
            /\ result'[i].filename = Filename(i)
            /\ failed_count' = failed_count + 1
            /\ UNCHANGED <<downloaded_count, total_size, bucket>>
            /\ puts[i] = 0]_vars

\* C10: when the summary is reached no call is in progress and
\* downloaded_count + failed_count + the number of skipped URLs is the number
\* of non-blank lines of the URL file.
C10_SummaryAccountsForEveryUrl ==
  mpc = "summary" =>
    /\ InProgress = {}
    /\ \A i \in Submitted : tpc[i] = "done"
    /\ downloaded_count + failed_count
         + Cardinality({ i \in Submitted : Skipped(i) }) = total_urls

(***************************************************************************)
(* Index generator: properties.                                            *)
(***************************************************************************)
IsAnchorItem(item) == item.markup = "<li><a>"

ListedKeys == LET objs == Flatten(listing) IN [k \in DOMAIN objs |-> objs[k].Key]

AnchorFor(key) ==
  [markup |-> "<li><a>",
   href |-> <<"https://", BUCKET, ".s3.amazonaws.com/", key>>,
   text |-> key[Len(key)]]

StaticLinks == { k \in DOMAIN written : written[k].href = PROCESSED_JSONL_URL }

IsFile(key) == key[Len(key)] # ""

\* C6 as stated: the written page has exactly one anchor list item per listed
\* object, over all pages and in listing order (keys ending with "/"
\* included), and exactly one link to the processed dataset.
C6_OneAnchorPerListedObject ==
  ipc = "done" =>
    /\ SelectSeq(written, IsAnchorItem)
         = [k \in DOMAIN ListedKeys |-> AnchorFor(ListedKeys[k])]
    /\ Cardinality(StaticLinks) = 1

\* C6 amended: the written page has exactly one anchor list item per listed
\* object whose key does not end with "/", over all pages and in listing
\* order, and exactly one link to the processed dataset; a listed key that
\* ends with "/" gets no anchor.
C6_OneAnchorPerListedFile ==
  ipc = "done" =>
    /\ SelectSeq(written, IsAnchorItem)
         = LET files == SelectSeq(ListedKeys, IsFile)
           IN [k \in DOMAIN files |-> AnchorFor(files[k])]
    /\ Cardinality(StaticLinks) = 1

C6_Witness ==
  /\ ipc = "done"
  /\ Len(listing) >= 2
  /\ \E k \in DOMAIN ListedKeys : ~IsFile(ListedKeys[k])
  /\ \E a, b \in DOMAIN listing :
       /\ a # b
       /\ \E m \in DOMAIN listing[a] : IsFile(listing[a][m].Key)
       /\ \E m \in DOMAIN listing[b] : IsFile(listing[b][m].Key)
  /\ Len(SelectSeq(written, IsAnchorItem)) = 2

(***************************************************************************)
(* Scraper: properties.                                                    *)
(***************************************************************************)
\* the header cells of table k include both texts
RecordTables ==
  { k \in DOMAIN page.tables :
      LET cells == UNION { { page.tables[k][r][n] : n \in DOMAIN page.tables[k][r] } :
                             r \in DOMAIN page.tables[k] }
          th == { c \in cells : c.tag = "th" }
      IN /\ \E c \in th : Strip(c.text) = <<"Record Number">>
         /\ \E c \in th : Strip(c.text) = <<"NARA Release Date">> }

\* the number of links of row r of table k whose href contains '.pdf'
RowPdfCount(k, r) ==
  LET row == page.tables[k][r]
      links == UNION { { <<n, l>> : l \in DOMAIN row[n].links } : n \in DOMAIN row }
  IN Cardinality({ nl \in links :
       \E x \in DOMAIN row[nl[1]].links[nl[2]].href :
         row[nl[1]].links[nl[2]].href[x] \in {".pdf", ".PDF"} })

RECURSIVE PdfCount(_, _)
PdfCount(k, r) == IF r = 0 THEN 0 ELSE PdfCount(k, r - 1) + RowPdfCount(k, r)

\* table k contains more than 10 links whose href contains '.pdf'
PdfTables ==
  { k \in DOMAIN page.tables : PdfCount(k, Len(page.tables[k])) > 10 }

Least(S) == CHOOSE k \in S : \A j \in S : k <= j

IsDocumentLink(link) ==
  \E x \in DOMAIN link.href : link.href[x] \in {".pdf", ".PDF", ".mp3", ".MP3"}

\* C7: the records come from the first table whose header cells include both
\* 'Record Number' and 'NARA Release Date'; only if there is none, from the
\* first table with more than 10 links whose href contains '.pdf'; only if
\* there is none either, from every link of the page whose href contains
\* '.pdf' or '.mp3', each with release_date 'Unknown'.  A chosen table is
\* kept even when it yields no record.
C7_SourcePriority ==
  (spc = "done" /\ source # "none") =>
    IF RecordTables # {}
    THEN /\ source = "header_table"
         /\ table = Least(RecordTables)
         /\ records = TableRecords(page.tables[table])
    ELSE IF PdfTables # {}
    THEN /\ source = "pdf_table"
         /\ table = Least(PdfTables)
         /\ records = TableRecords(page.tables[table])
    ELSE /\ source = "page_links"
         /\ table = 0
         /\ Len(records) = Len(SelectSeq(AllLinks(page), IsDocumentLink))
         /\ \A k \in DOMAIN records :
              /\ records[k].release_date = <<"Unknown">>
              /\ records[k].url
                   = <<base_url>> \o SelectSeq(AllLinks(page), IsDocumentLink)[k].href

C7_Witness ==
  /\ spc = "done"
  /\ source = "header_table"
  /\ table = 2
  /\ records = <<>>
  /\ 1 \in PdfTables
  /\ page.loose # <<>>

====
